---- MODULE Spec2Model ----
(***************************************************************************)
(* A model of the LangGraph documentation retrieval pipeline:              *)
(*   doc_utils.py          load_langgraph_docs, split_documents            *)
(*   vectorstore_utils.py  load_vectorstore, create_vectorstore            *)
(*   langgraph-mcp.py      langgraph_query_tool                            *)
(* Strings are sequences of one-character strings.  Calls into the         *)
(* libraries the code composes (yaml, RecursiveUrlLoader, the text         *)
(* splitter, SKLearnVectorStore, NearestNeighbors) are modelled at the     *)
(* call site by what the call does to the program's state.                 *)
(***************************************************************************)
EXTENDS Integers, Sequences, FiniteSets

\* ------------------------------------------------------------ bounds
NumChunks == 2
MaxSplits == 3
MaxContentLen == 2
MaxEntries == 1
MaxDocs == 1
MaxWords == 2
MaxDocuments == 2

\* ------------------------------------------------------- program constants
\* search_kwargs={"k": 3}
K == 3

\* RecursiveCharacterTextSplitter.from_tiktoken_encoder(chunk_size=8000,
\* chunk_overlap=500)
ChunkSize == 8000
ChunkOverlap == 500

\* the records a file of the model holds at most
MaxRecords == MaxSplits + 1

VARIABLES
    persist_file,       \* the file at PERSIST_PATH
    tool_pc,            \* position of the serving process in langgraph_query_tool
    query,              \* the tool's argument
    vectorstore,        \* what load_vectorstore returned
    load_trace,         \* what happened inside load_vectorstore
    relevant_docs,      \* retriever.invoke(query)
    formatted_context,  \* the text returned by the tool
    tool_outcome,       \* none | returned | raised
    build,              \* last create_vectorstore call: splits, outcome, file before
    last_op,            \* name of the operation that took the last step
    yaml_file,          \* langraph-doc.yaml as the build process finds it
    doc_pc,             \* position in load_langgraph_docs
    urls,               \* the dict urls, in insertion order: <<category, url list>>
    crawl_idx,          \* next position in the flattened url lists
    crawl_log,          \* the URLs a loader was created for, in order
    docs,               \* the list docs
    doc_result,         \* what load_langgraph_docs returned
    doc_exc,            \* the exception that left load_langgraph_docs, if any
    failed,             \* the loader error the environment produced, if any
    documents,          \* the argument of split_documents
    split_docs,         \* split_documents(documents)
    resplit_docs,       \* split_documents(split_docs)
    split_pc            \* start | split | resplit

storeVars == <<persist_file, tool_pc, query, vectorstore, load_trace,
               relevant_docs, formatted_context, tool_outcome, build, last_op>>

docVars == <<yaml_file, doc_pc, urls, crawl_idx, crawl_log, docs, doc_result,
             doc_exc, failed>>

splitVars == <<documents, split_docs, resplit_docs, split_pc>>

vars == <<storeVars, docVars, splitVars>>

\* ------------------------------------------------------------ strings
Letters == <<"a", "b", "c", "d", "e", "f">>

SeqsUpTo(S, n) == UNION {[1..m -> S] : m \in 0..n}

Digit(d) == <<"0", "1", "2", "3", "4", "5", "6", "7", "8", "9">>[d + 1]

\* str(n) for n >= 0, as the f-string renders {i+1}
RECURSIVE IntToStr(_)
IntToStr(n) == IF n < 10 THEN <<Digit(n)>>
               ELSE IntToStr(n \div 10) \o <<Digit(n % 10)>>

\* sep.join(parts)
RECURSIVE Join(_, _)
Join(sep, parts) ==
    IF Len(parts) = 0 THEN <<>>
    ELSE IF Len(parts) = 1 THEN parts[1]
    ELSE parts[1] \o sep \o Join(sep, Tail(parts))

DocumentTag == <<"=", "=", "D", "O", "C", "U", "M", "E", "N", "T", " ">>

\* f"==DOCUMENT {i+1}==\n{doc.page_content}", i the enumerate() index
DocBlockFromZero(i, page_content) ==
    DocumentTag \o IntToStr(i) \o <<"=", "=", "\n">> \o page_content

DocBlock(i, page_content) ==
    DocumentTag \o IntToStr(i + 1) \o <<"=", "=", "\n">> \o page_content

\* "\n\n".join([... for i, doc in enumerate(relevant_docs)])
FormatContext(ds) ==
    Join(<<"\n", "\n">>, [j \in 1..Len(ds) |-> DocBlock(j - 1, ds[j])])

\* ------------------------------------------------------- persisted index
ChunkTexts == {<<Letters[i]>> : i \in 1..NumChunks}
Queries == {<<"q">>, <<"r">>}

AbsentFile == [state |-> "absent", records |-> <<>>]
CorruptFile == [state |-> "corrupt", records |-> <<>>]
IndexFile(recs) == [state |-> "ok", records |-> recs]

NoneStore == [some |-> FALSE, fitted |-> FALSE, texts |-> <<>>]
Store(texts) == [some |-> TRUE, fitted |-> Len(texts) > 0, texts |-> texts]

NoTrace == [exists_seen |-> FALSE, at_ctor |-> "not_called", ctor |-> "not_called",
            outcome |-> "none"]
NoBuild == [splits |-> <<>>, outcome |-> "none", clean |-> FALSE]

NoDocResult == [set |-> FALSE, docs |-> <<>>, tokens_per_doc |-> <<>>]
NoFailure == [set |-> FALSE, idx |-> 0]

DocsIdle ==
    /\ doc_pc = "start"
    /\ urls = <<>>
    /\ crawl_idx = 1
    /\ crawl_log = <<>>
    /\ docs = <<>>
    /\ doc_result = NoDocResult
    /\ doc_exc = "none"
    /\ failed = NoFailure

SplitIdle ==
    /\ documents = <<>>
    /\ split_docs = <<>>
    /\ resplit_docs = <<>>
    /\ split_pc = "start"

StoreIdle ==
    /\ tool_pc = "idle"
    /\ query = <<>>
    /\ vectorstore = NoneStore
    /\ load_trace = NoTrace
    /\ relevant_docs = <<>>
    /\ formatted_context = <<>>
    /\ tool_outcome = "none"
    /\ build = NoBuild
    /\ last_op = "none"

Range(f) == {f[i] : i \in DOMAIN f}
Min(a, b) == IF a < b THEN a ELSE b

\* SKLearnVectorStore(persist_path=PERSIST_PATH, embedding=HuggingFaceEmbeddings(),
\* serializer="parquet") on file f: the constructor reads an existing file and
\* fits the neighbour index, which raises on unreadable or empty data; when no
\* file is there it starts empty.  fault is what the environment does to the
\* call (the embedding model cannot be built, the read fails).
CtorRaises(f, fault) ==
    \/ fault # "none"
    \/ f.state = "corrupt"
    \/ f.state = "ok" /\ Len(f.records) = 0

CtorStore(f) == IF f.state = "ok" THEN Store(f.records) ELSE Store(<<>>)

Faults == {"none", "embedding", "io"}

\* ------------------------------------------------ load_vectorstore
\* if os.path.exists(PERSIST_PATH): ... else: warning, return None
LoadExists ==
    /\ tool_pc = "load_exists"
    /\ IF persist_file.state # "absent"
       THEN /\ load_trace' = [load_trace EXCEPT !.exists_seen = TRUE]
            /\ tool_pc' = "load_construct"
            /\ UNCHANGED vectorstore
       ELSE /\ load_trace' = [load_trace EXCEPT !.outcome = "returned"]
            /\ vectorstore' = NoneStore
            /\ tool_pc' = "loaded"
    /\ last_op' = "load_vectorstore"
    /\ UNCHANGED <<persist_file, query, relevant_docs, formatted_context,
                   tool_outcome, build>>
    /\ UNCHANGED <<docVars, splitVars>>

\* A load whose except clause names only the error of a missing file.
LoadConstructNarrowExcept ==
    /\ tool_pc = "load_construct"
    /\ \E fault \in Faults :
          IF CtorRaises(persist_file, fault)
          THEN IF fault = "io"
               THEN /\ load_trace' = [load_trace EXCEPT !.at_ctor = persist_file.state,
                                                   !.ctor = "raised",
                                                        !.outcome = "returned"]
                    /\ vectorstore' = NoneStore
               ELSE /\ load_trace' = [load_trace EXCEPT !.at_ctor = persist_file.state,
                                                   !.ctor = "raised",
                                                        !.outcome = "raised"]
                    /\ UNCHANGED vectorstore
          ELSE /\ load_trace' = [load_trace EXCEPT !.at_ctor = persist_file.state,
                                                   !.ctor = "built",
                                                   !.outcome = "returned"]
               /\ vectorstore' = CtorStore(persist_file)
    /\ tool_pc' = "loaded"
    /\ last_op' = "load_vectorstore"
    /\ UNCHANGED <<persist_file, query, relevant_docs, formatted_context,
                   tool_outcome, build>>
    /\ UNCHANGED <<docVars, splitVars>>

\* A load that removes a file it could not read.
LoadConstructRemovesBadFile ==
    /\ tool_pc = "load_construct"
    /\ \E fault \in Faults :
          IF CtorRaises(persist_file, fault)
          THEN /\ load_trace' = [load_trace EXCEPT !.at_ctor = persist_file.state,
                                                   !.ctor = "raised",
                                                   !.outcome = "returned"]
               /\ vectorstore' = NoneStore
               /\ persist_file' = AbsentFile
          ELSE /\ load_trace' = [load_trace EXCEPT !.at_ctor = persist_file.state,
                                                   !.ctor = "built",
                                                   !.outcome = "returned"]
               /\ vectorstore' = CtorStore(persist_file)
               /\ UNCHANGED persist_file
    /\ tool_pc' = "loaded"
    /\ last_op' = "load_vectorstore"
    /\ UNCHANGED <<query, relevant_docs, formatted_context, tool_outcome, build>>
    /\ UNCHANGED <<docVars, splitVars>>

\* try: vectorstore = SKLearnVectorStore(...); return vectorstore
\* except Exception: error; return None
LoadConstruct ==
    /\ tool_pc = "load_construct"
    /\ \E fault \in Faults :
          IF CtorRaises(persist_file, fault)
          THEN /\ load_trace' = [load_trace EXCEPT !.at_ctor = persist_file.state,
                                                   !.ctor = "raised",
                                                   !.outcome = "returned"]
               /\ vectorstore' = NoneStore
          ELSE /\ load_trace' = [load_trace EXCEPT !.at_ctor = persist_file.state,
                                                   !.ctor = "built",
                                                   !.outcome = "returned"]
               /\ vectorstore' = CtorStore(persist_file)
    /\ tool_pc' = "loaded"
    /\ last_op' = "load_vectorstore"
    /\ UNCHANGED <<persist_file, query, relevant_docs, formatted_context,
                   tool_outcome, build>>
    /\ UNCHANGED <<docVars, splitVars>>

\* ------------------------------------------------ langgraph_query_tool
\* the transport delivers one request at a time
ToolCall ==
    /\ tool_pc = "idle"
    /\ \E q \in Queries : query' = q
    /\ tool_pc' = "load_exists"
    /\ last_op' = "langgraph_query_tool"
    /\ UNCHANGED <<persist_file, vectorstore, load_trace, relevant_docs,
                   formatted_context, tool_outcome, build>>
    /\ UNCHANGED <<docVars, splitVars>>

\* the rankings the neighbour search can give: k distinct records
Rankings(n, k) == {r \in [1..k -> 1..n] : \A i, j \in 1..k : i # j => r[i] # r[j]}

\* retriever = load_vectorstore().as_retriever(search_kwargs={"k": 3})
\* relevant_docs = retriever.invoke(query)
Retrieve ==
    /\ tool_pc = "loaded"
    /\ IF ~vectorstore.some
       THEN /\ tool_outcome' = "AttributeError"
            /\ tool_pc' = "done"
            /\ UNCHANGED relevant_docs
       ELSE IF ~vectorstore.fitted
       THEN /\ tool_outcome' = "SKLearnVectorStoreException"
            /\ tool_pc' = "done"
            /\ UNCHANGED relevant_docs
       ELSE IF Len(vectorstore.texts) < K
       THEN /\ tool_outcome' = "ValueError"
            /\ tool_pc' = "done"
            /\ UNCHANGED relevant_docs
       ELSE /\ \E r \in Rankings(Len(vectorstore.texts), K) :
                  relevant_docs' = [j \in 1..K |-> vectorstore.texts[r[j]]]
            /\ tool_pc' = "retrieved"
            /\ UNCHANGED tool_outcome
    /\ last_op' = "langgraph_query_tool"
    /\ UNCHANGED <<persist_file, query, vectorstore, load_trace,
                   formatted_context, build>>
    /\ UNCHANGED <<docVars, splitVars>>

\* formatted_context = "\n\n".join([...]); return formatted_context
FormatReturn ==
    /\ tool_pc = "retrieved"
    /\ formatted_context' = FormatContext(relevant_docs)
    /\ tool_outcome' = "returned"
    /\ tool_pc' = "done"
    /\ last_op' = "langgraph_query_tool"
    /\ UNCHANGED <<persist_file, query, vectorstore, load_trace,
                   relevant_docs, build>>
    /\ UNCHANGED <<docVars, splitVars>>

\* the server waits for the next request
ToolDone ==
    /\ tool_pc = "done"
    /\ tool_pc' = "idle"
    /\ query' = <<>>
    /\ vectorstore' = NoneStore
    /\ load_trace' = NoTrace
    /\ relevant_docs' = <<>>
    /\ formatted_context' = <<>>
    /\ tool_outcome' = "none"
    /\ last_op' = "langgraph_query_tool"
    /\ UNCHANGED <<persist_file, build>>
    /\ UNCHANGED <<docVars, splitVars>>

\* ------------------------------------------------ create_vectorstore
\* SKLearnVectorStore.from_documents(documents=splits, embedding=..., 
\* persist_path=PERSIST_PATH, serializer="parquet"): constructs the store on
\* PERSIST_PATH (reading the file that is there) and adds the splits to it.
FromDocuments(f, splits) == CtorStore(f).texts \o splits

\* runs as a process of its own, never while a query is being served
create_vectorstore(splits) ==
    /\ tool_pc = "idle"
    /\ Len(persist_file.records) + Len(splits) <= MaxRecords
    /\ \E fault \in {"none", "embedding"} :
          IF CtorRaises(persist_file, fault) \/ Len(FromDocuments(persist_file, splits)) = 0
          THEN /\ build' = [splits |-> splits, outcome |-> "raised", clean |-> FALSE]
               /\ UNCHANGED persist_file
          ELSE \* vectorstore.persist()
               /\ persist_file' = IndexFile(FromDocuments(persist_file, splits))
               /\ build' = [splits |-> splits, outcome |-> "returned", clean |-> TRUE]
    /\ last_op' = "create_vectorstore"
    /\ UNCHANGED <<tool_pc, query, vectorstore, load_trace, relevant_docs,
                   formatted_context, tool_outcome>>
    /\ UNCHANGED <<docVars, splitVars>>

Build == \E splits \in SeqsUpTo(ChunkTexts, MaxSplits) : create_vectorstore(splits)

\* ------------------------------------------------ the file system
\* something outside the program removes or damages the file
EnvRemove ==
    /\ persist_file.state # "absent"
    /\ persist_file' = AbsentFile
    /\ build' = [build EXCEPT !.clean = FALSE]
    /\ last_op' = "env"
    /\ UNCHANGED <<tool_pc, query, vectorstore, load_trace, relevant_docs,
                   formatted_context, tool_outcome>>
    /\ UNCHANGED <<docVars, splitVars>>

EnvCorrupt ==
    /\ persist_file.state = "ok"
    /\ persist_file' = CorruptFile
    /\ build' = [build EXCEPT !.clean = FALSE]
    /\ last_op' = "env"
    /\ UNCHANGED <<tool_pc, query, vectorstore, load_trace, relevant_docs,
                   formatted_context, tool_outcome>>
    /\ UNCHANGED <<docVars, splitVars>>

InitStore ==
    /\ persist_file \in {AbsentFile, CorruptFile}
           \cup {IndexFile(r) : r \in SeqsUpTo(ChunkTexts, MaxRecords) \ {<<>>}}
    /\ StoreIdle
    /\ yaml_file = [kind |-> "missing", cats |-> <<>>]
    /\ DocsIdle
    /\ SplitIdle

NextStore ==
    \/ ToolCall
    \/ LoadExists
    \/ LoadConstruct
    \/ Retrieve
    \/ FormatReturn
    \/ ToolDone
    \/ Build
    \/ EnvRemove
    \/ EnvCorrupt

SpecStore == InitStore /\ [][NextStore]_vars

\* ------------------------------------------------ load_langgraph_docs
\* A category's content: the keys it has and their lists.  A guide entry has
\* a "url" and may carry nested "links"; a link entry has a "url".  The url
\* of an entry is named by the entry's place in the file.
GuideShapes == {[has_links |-> FALSE, n_links |-> 0]}
                  \cup {[has_links |-> TRUE, n_links |-> n] : n \in 0..MaxEntries}

ContentShapes ==
    [has_guides : {FALSE}, guides : {<<>>}, has_links : BOOLEAN, n_links : {0}]
      \cup [has_guides : {FALSE}, guides : {<<>>}, has_links : {TRUE},
            n_links : 1..MaxEntries]
      \cup [has_guides : {TRUE}, guides : SeqsUpTo(GuideShapes, MaxEntries),
            has_links : {FALSE}, n_links : {0}]
      \cup [has_guides : {TRUE}, guides : SeqsUpTo(GuideShapes, MaxEntries),
            has_links : {TRUE}, n_links : 0..MaxEntries]

GuideUrl(c, g) == <<c, "guide", g, 0>>
NestedLinkUrl(c, g, l) == <<c, "guide", g, l>>
LinkUrl(c, l) == <<c, "link", 0, l>>

\* what open() and yaml.safe_load() give: no file; a YAMLError; None (an empty
\* file); a list (a top level that is no mapping); a mapping without the key
\* "langraph"; a mapping with it
YamlFiles ==
    {[kind |-> k, cats |-> <<>>] : k \in {"missing", "malformed", "none", "list", "nokey"}}
      \cup {[kind |-> "mapping", cats |-> c] : c \in SeqsUpTo(ContentShapes, 2)}

\* [guide["url"] for guide in content["guides"]]
GuideUrls(c, content) == [g \in 1..Len(content.guides) |-> GuideUrl(c, g)]

\* "guides" in content / elif "links" in content: content["guides"] is read in
\* both branches
CategoryRaises(content) == ~content.has_guides /\ content.has_links

\* the loop of lines 61-68 over the first n categories
RECURSIVE ExtractedUrls(_, _)
ExtractedUrls(cats, n) ==
    IF n = 0 THEN <<>>
    ELSE IF cats[n].has_guides
         THEN Append(ExtractedUrls(cats, n - 1), <<n, GuideUrls(n, cats[n])>>)
         ELSE ExtractedUrls(cats, n - 1)

\* for category, url_list in urls.items(): for url in url_list
RECURSIVE Flatten(_)
Flatten(us) == IF Len(us) = 0 THEN <<>> ELSE us[1][2] \o Flatten(Tail(us))

\* with open(yaml_file_path) ... yaml.safe_load(file), and the two except clauses
LoadYaml ==
    /\ doc_pc = "start"
    /\ IF yaml_file.kind \in {"missing", "malformed"}
       THEN /\ doc_result' = [set |-> TRUE, docs |-> <<>>, tokens_per_doc |-> <<>>]
            /\ doc_pc' = "returned"
       ELSE /\ doc_pc' = "extract"
            /\ UNCHANGED doc_result
    /\ UNCHANGED <<yaml_file, urls, crawl_idx, crawl_log, docs, doc_exc, failed>>
    /\ UNCHANGED <<storeVars, splitVars>>

\* urls = {}; for category, content in langraph_doc.get("langraph", {}).items(): ...
ExtractUrls ==
    /\ doc_pc = "extract"
    /\ IF yaml_file.kind \in {"none", "list"}
       THEN /\ doc_exc' = "AttributeError"
            /\ doc_pc' = "raised"
            /\ UNCHANGED urls
       ELSE IF \E n \in 1..Len(yaml_file.cats) : CategoryRaises(yaml_file.cats[n])
       THEN /\ doc_exc' = "KeyError"
            /\ doc_pc' = "raised"
            /\ UNCHANGED urls
       ELSE /\ urls' = ExtractedUrls(yaml_file.cats, Len(yaml_file.cats))
            /\ doc_pc' = "crawl"
            /\ UNCHANGED doc_exc
    /\ UNCHANGED <<yaml_file, crawl_idx, crawl_log, docs, doc_result, failed>>
    /\ UNCHANGED <<storeVars, splitVars>>

\* a Document the loader yields: its source and its page content, as tokens
Doc(url, j) == [source |-> url, page_content |-> [x \in 1..j |-> "tok"]]

\* A crawl wrapped in try/except that logs the error and goes on.
CrawlUrlSwallow ==
    /\ doc_pc = "crawl"
    /\ crawl_idx <= Len(Flatten(urls))
    /\ LET url == Flatten(urls)[crawl_idx] IN
       /\ crawl_log' = Append(crawl_log, url)
       /\ \E n \in 0..MaxDocs, ok \in BOOLEAN :
             /\ docs' = docs \o [j \in 1..n |-> Doc(url, j)]
             /\ crawl_idx' = crawl_idx + 1
             /\ IF ok THEN UNCHANGED failed
                ELSE failed' = [set |-> TRUE, idx |-> crawl_idx]
    /\ UNCHANGED <<yaml_file, doc_pc, urls, doc_result, doc_exc>>
    /\ UNCHANGED <<storeVars, splitVars>>

\* loader = RecursiveUrlLoader(url, max_depth=5, extractor=bs4_extractor)
\* for d in loader.lazy_load(): docs.append(d)
\* the loader yields n documents and then ends or raises
CrawlUrl ==
    /\ doc_pc = "crawl"
    /\ crawl_idx <= Len(Flatten(urls))
    /\ LET url == Flatten(urls)[crawl_idx] IN
       /\ crawl_log' = Append(crawl_log, url)
       /\ \E n \in 0..MaxDocs, ok \in BOOLEAN :
             /\ docs' = docs \o [j \in 1..n |-> Doc(url, j)]
             /\ IF ok
                THEN /\ crawl_idx' = crawl_idx + 1
                     /\ UNCHANGED <<doc_pc, doc_exc, failed>>
                ELSE /\ failed' = [set |-> TRUE, idx |-> crawl_idx]
                     /\ doc_exc' = "LoaderError"
                     /\ doc_pc' = "raised"
                     /\ UNCHANGED crawl_idx
    /\ UNCHANGED <<yaml_file, urls, doc_result>>
    /\ UNCHANGED <<storeVars, splitVars>>

\* len(encoder.encode(text))
count_tokens(text) == Len(text)

\* tokens_per_doc ...; return docs, tokens_per_doc
ReturnDocs ==
    /\ doc_pc = "crawl"
    /\ crawl_idx > Len(Flatten(urls))
    /\ doc_result' = [set |-> TRUE, docs |-> docs,
                      tokens_per_doc |-> [i \in 1..Len(docs) |->
                                             count_tokens(docs[i].page_content)]]
    /\ doc_pc' = "returned"
    /\ UNCHANGED <<yaml_file, urls, crawl_idx, crawl_log, docs, doc_exc, failed>>
    /\ UNCHANGED <<storeVars, splitVars>>

InitDocs ==
    /\ yaml_file \in YamlFiles
    /\ DocsIdle
    /\ SplitIdle
    /\ persist_file = AbsentFile
    /\ StoreIdle

NextDocs ==
    \/ LoadYaml
    \/ ExtractUrls
    \/ CrawlUrl
    \/ ReturnDocs

SpecDocs == InitDocs /\ [][NextDocs]_vars

\* ------------------------------------------------ split_documents
\* The page contents of the model are words separated by single blanks, a
\* word being a stretch of the endless string "the.the.the." : [off, n] is
\* the n characters from offset off.  A text is the sequence of its words.
\* from_tiktoken_encoder measures length with the gpt2 encoding, in which
\* "the", " the", "th", "he", "t", "h", "e", "." and " " are one token each
\* and a token never spans a letter/"." boundary.
TheDot == <<"t", "h", "e", ".">>
Period == Len(TheDot)

\* tokens of the first m characters of "the.the. ..."
PrefixTokens(m) == 2 * (m \div Period) + (IF m % Period = 0 THEN 0 ELSE 1)

\* length_function of a word, and of a word with the blank before it
TokenLen(w) ==
    PrefixTokens(w.off + w.n) - PrefixTokens(w.off)
      + (IF w.off % Period \in {1, 2} THEN 1 ELSE 0)

Word(n) == [off |-> 0, n |-> n]

RECURSIVE SumLen(_)
SumLen(ws) == IF Len(ws) = 0 THEN 0 ELSE TokenLen(ws[1]) + SumLen(Tail(ws))

\* _merge_splits: while total > chunk_overlap or (total + _len > chunk_size
\* and total > 0): drop the first piece of current_doc
RECURSIVE PopWhile(_, _)
PopWhile(current, len) ==
    IF SumLen(current) > ChunkOverlap
          \/ (SumLen(current) + len > ChunkSize /\ SumLen(current) > 0)
    THEN PopWhile(Tail(current), len)
    ELSE current

\* _merge_splits(splits, "") over word pieces (a piece other than the first
\* of its text starts with the blank, so joined pieces read as words); the
\* joined chunk is stripped
RECURSIVE MergeLoop(_, _, _, _)
MergeLoop(splits, i, current, out) ==
    IF i > Len(splits)
    THEN IF Len(current) = 0 THEN out ELSE Append(out, current)
    ELSE IF SumLen(current) + TokenLen(splits[i]) > ChunkSize /\ Len(current) > 0
         THEN MergeLoop(splits, i + 1,
                        Append(PopWhile(current, TokenLen(splits[i])), splits[i]),
                        Append(out, current))
         ELSE MergeLoop(splits, i + 1, Append(current, splits[i]), out)

MergeSplits(splits) == MergeLoop(splits, 1, <<>>, <<>>)

\* _merge_splits over m pieces of one character, each one token long, a chunk
\* at a time: a chunk is emitted at chunk_size pieces and the last
\* chunk_overlap of them are kept.  The chunks as <<start, length>>.
RECURSIVE MergeChars(_, _)
MergeChars(start, m) ==
    IF m = 0 THEN <<>>
    ELSE IF m <= ChunkSize THEN << <<start, m>> >>
    ELSE << <<start, ChunkSize>> >>
           \o MergeChars(start + ChunkSize - ChunkOverlap, m - ChunkSize + ChunkOverlap)

\* _split_text(s, [""]) of a piece: list(s), all pieces good, merged and
\* stripped.  lead: the piece starts with the blank that separated it.
SplitChars(w, lead) ==
    LET b == IF lead THEN 1 ELSE 0
        cs == MergeChars(0, w.n + b)
        text(c) == IF c[1] = 0
                   THEN <<[off |-> w.off, n |-> c[2] - b]>>
                   ELSE <<[off |-> (w.off + c[1] - b) % Period, n |-> c[2]]>>
    IN [k \in 1..Len(cs) |-> text(cs[k])]

\* _split_text(text, separators) with the separator " " found: the pieces
\* shorter than chunk_size are collected and merged, a longer one is split
\* with the separators that remain
RECURSIVE ScanPieces(_, _, _, _)
ScanPieces(text, i, good, out) ==
    IF i > Len(text) THEN out \o MergeSplits(good)
    ELSE IF TokenLen(text[i]) < ChunkSize
         THEN ScanPieces(text, i + 1, Append(good, text[i]), out)
         ELSE ScanPieces(text, i + 1, <<>>,
                         out \o MergeSplits(good) \o SplitChars(text[i], i > 1))

\* split_text: the first separator of ["\n\n", "\n", " ", ""] found in the
\* text is " " when it has two words or more, and "" otherwise
SplitText(text) ==
    IF Len(text) = 0 THEN <<>>
    ELSE IF Len(text) = 1 THEN SplitChars(text[1], FALSE)
    ELSE ScanPieces(text, 1, <<>>, <<>>)

\* text_splitter.split_documents(documents): the chunks of each document in turn
RECURSIVE split_documents(_)
split_documents(ds) ==
    IF Len(ds) = 0 THEN <<>> ELSE SplitText(ds[1]) \o split_documents(Tail(ds))

WordSizes == {Period, 3000 * Period, 4000 * Period}
Texts == SeqsUpTo({Word(n) : n \in WordSizes}, MaxWords)

SplitDocuments ==
    /\ split_pc = "start"
    /\ split_docs' = split_documents(documents)
    /\ split_pc' = "split"
    /\ UNCHANGED <<documents, resplit_docs>>
    /\ UNCHANGED <<storeVars, docVars>>

\* the caller hands the chunks to split_documents again
SplitAgain ==
    /\ split_pc = "split"
    /\ resplit_docs' = split_documents(split_docs)
    /\ split_pc' = "resplit"
    /\ UNCHANGED <<documents, split_docs>>
    /\ UNCHANGED <<storeVars, docVars>>

InitSplit ==
    /\ documents \in SeqsUpTo(Texts, MaxDocuments)
    /\ split_docs = <<>>
    /\ resplit_docs = <<>>
    /\ split_pc = "start"
    /\ yaml_file = [kind |-> "missing", cats |-> <<>>]
    /\ DocsIdle
    /\ persist_file = AbsentFile
    /\ StoreIdle

NextSplit ==
    \/ SplitDocuments
    \/ SplitAgain

SpecSplit == InitSplit /\ [][NextSplit]_vars

\* C8: chunking is idempotent: splitting the chunks of split_documents(D)
\* again, with the same chunk size 8000 and overlap 500, yields the same
\* chunk texts in the same order.
C8_SplitIdempotent ==
    split_pc = "resplit" => resplit_docs = split_docs

\* ------------------------------------------------ formatting alone
\* doc.page_content is any text: the pieces a page content of the model is
\* made of are a letter, a newline, an equals sign and a line that itself
\* reads "==DOCUMENT 2==", as a chunk of a page about this tool's output does
ContentPieces == {<<"a">>, <<"\n">>, <<"=">>, DocumentTag \o <<"2", "=", "=">>}

\* the page contents the retriever may hand to the formatting step
PageContents ==
    {Join(<<>>, ps) : ps \in SeqsUpTo(ContentPieces, MaxContentLen)}

InitFormat ==
    /\ persist_file = AbsentFile
    /\ tool_pc = "retrieved"
    /\ query = <<"q">>
    /\ vectorstore = NoneStore
    /\ load_trace = NoTrace
    /\ relevant_docs \in SeqsUpTo(PageContents, K)
    /\ formatted_context = <<>>
    /\ tool_outcome = "none"
    /\ build = NoBuild
    /\ last_op = "none"
    /\ yaml_file = [kind |-> "missing", cats |-> <<>>]
    /\ DocsIdle
    /\ SplitIdle

NextFormat == FormatReturn

SpecFormat == InitFormat /\ [][NextFormat]_vars

\* ================================================================ claims

\* C2: whatever the state of the persisted index, langgraph_query_tool handles
\* the result of load_vectorstore: when load_vectorstore returned None the
\* call still ends by returning a text block, never with an unhandled error.
C2_ToolHandlesNone ==
    (tool_pc = "done" /\ load_trace.outcome = "returned" /\ ~vectorstore.some)
        => tool_outcome = "returned"

\* C3 as stated: load_vectorstore never raises; it returns None when no file
\* exists at PERSIST_PATH and when the file exists but constructing the store
\* raises, the file disappearing between the existence check and the read
\* included; it returns a store only when the file exists and loading succeeds.
C3_AsStated ==
    /\ load_trace.outcome # "raised"
    /\ load_trace.outcome = "returned" =>
          /\ ~load_trace.exists_seen => ~vectorstore.some
          /\ load_trace.ctor = "raised" => ~vectorstore.some
          /\ (load_trace.exists_seen /\ load_trace.at_ctor = "absent") => ~vectorstore.some
          /\ vectorstore.some => (load_trace.at_ctor = "ok" /\ load_trace.ctor = "built")

\* C3, amended: load_vectorstore never raises; it returns None when no file
\* exists at PERSIST_PATH and when constructing the store raises; it returns
\* a store exactly when the existence check passed and the constructor did
\* not raise, and when the file disappeared between the check and the
\* constructor's read that store is empty or, the read having failed, None.
C3_LoadNeverRaises ==
    /\ load_trace.outcome # "raised"
    /\ load_trace.outcome = "returned" =>
          /\ ~load_trace.exists_seen => ~vectorstore.some
          /\ load_trace.ctor = "raised" => ~vectorstore.some
          /\ vectorstore.some <=> (load_trace.exists_seen /\ load_trace.ctor = "built")
          /\ (vectorstore.some /\ load_trace.at_ctor # "ok") =>
                (load_trace.at_ctor = "absent" /\ vectorstore.texts = <<>>)

\* load_vectorstore has returned an empty store for a file that disappeared
\* after the existence check
C3_Witness ==
    /\ load_trace.exists_seen
    /\ load_trace.outcome = "returned"
    /\ load_trace.ctor = "built"
    /\ load_trace.at_ctor = "absent"
    /\ vectorstore.some
    /\ vectorstore.texts = <<>>

Digits == {Digit(d) : d \in 0..9}

\* a separator "==DOCUMENT i==" starts at position p of s
SeparatorAt(s, p) ==
    /\ p + Len(DocumentTag) - 1 <= Len(s)
    /\ SubSeq(s, p, p + Len(DocumentTag) - 1) = DocumentTag
    /\ \E n \in 1..Len(s) :
          LET d == p + Len(DocumentTag)
          IN /\ d + n + 1 <= Len(s)
             /\ \A j \in d..(d + n - 1) : s[j] \in Digits
             /\ s[d + n] = "="
             /\ s[d + n + 1] = "="

SeparatorPositions(s) == {p \in 1..Len(s) : SeparatorAt(s, p)}

NthSeparator(s, i) ==
    CHOOSE p \in SeparatorPositions(s) :
        Cardinality({q \in SeparatorPositions(s) : q < p}) = i - 1

ExpectedBlock(i, content) ==
    DocumentTag \o <<Digit(i), "=", "=", "\n">> \o content

\* where the i-th block starts when blocks are joined by a blank line
RECURSIVE BlockStart(_, _)
BlockStart(ds, i) ==
    IF i = 1 THEN 1
    ELSE BlockStart(ds, i - 1) + Len(ExpectedBlock(i - 1, ds[i - 1])) + 2

RECURSIVE SeparatorsInside(_)
SeparatorsInside(ds) ==
    IF ds = <<>> THEN 0
    ELSE Cardinality(SeparatorPositions(Head(ds))) + SeparatorsInside(Tail(ds))

\* C4 as stated: for k retrieved documents (0 <= k <= 3) the returned text
\* holds exactly k separators "==DOCUMENT i==", for i = 1..k in increasing
\* order, each followed by the i-th document's page content, consecutive
\* blocks joined by a blank line; for k = 0 the text is empty.
C4_AsStated ==
    (tool_pc = "done" /\ tool_outcome = "returned") =>
        LET s == formatted_context
            k == Len(relevant_docs)
        IN /\ Cardinality(SeparatorPositions(s)) = k
           /\ k = 0 => s = <<>>
           /\ k > 0 => NthSeparator(s, 1) = 1
           /\ \A i \in 1..k :
                 LET p == NthSeparator(s, i)
                     e == ExpectedBlock(i, relevant_docs[i])
                     q == p + Len(e)
                 IN /\ q - 1 <= Len(s)
                    /\ SubSeq(s, p, q - 1) = e
                    /\ IF i = k THEN q - 1 = Len(s)
                       ELSE /\ q + 1 <= Len(s)
                            /\ SubSeq(s, q, q + 1) = <<"\n", "\n">>
                            /\ NthSeparator(s, i + 1) = q + 2

\* C4, amended: for k retrieved documents (0 <= k <= 3) the returned text is
\* the k blocks "==DOCUMENT i==", newline, page content of the i-th document,
\* for i = 1..k in retrieval order, joined by a blank line, and empty for
\* k = 0.  It holds k separators plus those the page contents themselves
\* contain: exactly k, one at the head of each block, when no page content
\* contains a text of the form "==DOCUMENT i==".
C4_NumberedSeparators ==
    (tool_pc = "done" /\ tool_outcome = "returned") =>
        LET s == formatted_context
            k == Len(relevant_docs)
            heads == {BlockStart(relevant_docs, i) : i \in 1..k}
        IN /\ k = 0 => s = <<>>
           /\ \A i \in 1..k :
                 LET p == BlockStart(relevant_docs, i)
                     e == ExpectedBlock(i, relevant_docs[i])
                     q == p + Len(e)
                 IN /\ q - 1 <= Len(s)
                    /\ SubSeq(s, p, q - 1) = e
                    /\ IF i = k THEN q - 1 = Len(s)
                       ELSE /\ q + 1 <= Len(s)
                            /\ SubSeq(s, q, q + 1) = <<"\n", "\n">>
           /\ heads \subseteq SeparatorPositions(s)
           /\ Cardinality(SeparatorPositions(s))
                 = k + SeparatorsInside(relevant_docs)
           /\ SeparatorsInside(relevant_docs) = 0 =>
                 /\ SeparatorPositions(s) = heads
                 /\ \A i \in 1..k :
                       NthSeparator(s, i) = BlockStart(relevant_docs, i)

\* two documents were formatted, the first one a page whose text shows a
\* separator line of its own: the returned text holds three separators
C4_Witness ==
    /\ tool_pc = "done"
    /\ tool_outcome = "returned"
    /\ Len(relevant_docs) = 2
    /\ relevant_docs[1] = <<"a">> \o DocumentTag \o <<"2", "=", "=">>
    /\ relevant_docs[2] = <<"\n", "a">>
    /\ Cardinality(SeparatorPositions(formatted_context)) = 3

\* C5: after create_vectorstore(splits) on N chunks has completed, a load
\* returns a store and a query through langgraph_query_tool returns exactly
\* min(3, N) results, each the text of a chunk of splits.
C5_RoundTrip ==
    (build.outcome = "returned" /\ build.clean /\ Len(build.splits) > 0
        /\ tool_pc = "done" /\ load_trace.ctor # "raised") =>
        /\ vectorstore.some
        /\ tool_outcome = "returned"
        /\ Len(relevant_docs) = Min(K, Len(build.splits))
        /\ \A i \in DOMAIN relevant_docs : relevant_docs[i] \in Range(build.splits)

\* C6: after a build the persisted file holds exactly the records of the most
\* recent create_vectorstore(splits), one per chunk: nothing of a file that
\* was there before the build is carried over.
C6_RebuildOverwrites ==
    (build.outcome = "returned" /\ build.clean /\ Len(build.splits) > 0) =>
        persist_file = IndexFile(build.splits)

\* C10: the file at PERSIST_PATH is read-only at serve time: no step of
\* langgraph_query_tool or load_vectorstore changes it; of the program's
\* operations only create_vectorstore does.
C10_ServeReadOnly ==
    [][persist_file' # persist_file => last_op' \in {"create_vectorstore", "env"}]_vars

\* a query was served from an index file that is still there
C10_Witness ==
    /\ tool_pc = "done"
    /\ tool_outcome = "returned"
    /\ last_op = "langgraph_query_tool"
    /\ persist_file.state = "ok"

\* every "url" field of every guide entry and of every link entry of the file
AllUrlFields(cats) ==
    UNION {
        {GuideUrl(c, g) : g \in 1..Len(cats[c].guides)}
          \cup {NestedLinkUrl(c, g, l) : <<g, l>> \in
                  {gl \in (1..Len(cats[c].guides)) \X (1..MaxEntries) :
                      gl[2] <= cats[c].guides[gl[1]].n_links}}
          \cup {LinkUrl(c, l) : l \in 1..cats[c].n_links}
        : c \in 1..Len(cats)}

\* C1: for every parseable configuration file the extraction does not raise,
\* and the extracted URL list holds exactly the "url" field of every guide
\* entry and of every link entry of the file, nothing missing, nothing extra.
C1_UrlsMatchConfig ==
    (yaml_file.kind \in {"mapping", "nokey"} /\ doc_pc \notin {"start", "extract"}) =>
        /\ doc_exc \notin {"KeyError", "AttributeError"}
        /\ Range(Flatten(urls)) = AllUrlFields(yaml_file.cats)
        /\ Len(Flatten(urls)) = Cardinality(AllUrlFields(yaml_file.cats))

\* C7: when the configuration file is missing or does not parse to the
\* expected mapping (an empty file and a non-mapping top level included),
\* load_langgraph_docs returns ([], []) and crawls nothing.
C7_BadConfigEmptyResult ==
    (yaml_file.kind \in {"missing", "malformed", "none", "list"}
        /\ doc_pc \notin {"start", "extract"}) =>
        /\ doc_pc = "returned"
        /\ doc_result = [set |-> TRUE, docs |-> <<>>, tokens_per_doc |-> <<>>]
        /\ crawl_log = <<>>

\* C9: an error raised while crawling a URL leaves load_langgraph_docs
\* uncaught: the remaining URLs are not crawled and nothing is returned.
C9_CrawlErrorPropagates ==
    failed.set =>
        /\ doc_pc = "raised"
        /\ doc_exc = "LoaderError"
        /\ ~doc_result.set
        /\ crawl_log = SubSeq(Flatten(urls), 1, failed.idx)

\* a loader failed after documents had been collected and with URLs left
C9_Witness ==
    /\ failed.set
    /\ Len(docs) > 0
    /\ failed.idx < Len(Flatten(urls))
    /\ doc_pc = "raised"

====
